---- MODULE Spec2Model ----
(***************************************************************************)
(* Orchestra core: the provider registry, the consensus engine, the debate *)
(* coordinator and the facade (query, consensus, debate, addProvider,      *)
(* removeProvider, healthCheck), as a state machine.                       *)
(*                                                                         *)
(* Encodings.  A string the code inspects (a response content) is a        *)
(* sequence of one-character strings.  A number the code divides is an     *)
(* exact fraction <<numerator, denominator>>.  An optional value is a      *)
(* sequence: <<>> when undefined, <<v>> when present.  A provider is the   *)
(* IProvider interface: its complete() fulfils with some content or        *)
(* rejects with some cause, whenever it likes.                             *)
(***************************************************************************)
EXTENDS Integers, Sequences, FiniteSets, TLC

\* ------------------------------------------------------------------ bounds
\* longest explicit options.providers list the environment passes
MaxProviders == 2
\* largest maxRounds the environment passes to debate
MaxRoundsArg == 2
\* no debate is followed beyond this many rounds
RoundCap == 4

\* ------------------------------------------------------- the environment
Names == {"openai", "claude", "local"}
\* the providers the environment names in an explicit options.providers
Listed == {"claude", "local"}
\* the providers the environment adds with addProvider after construction
Addable == {"local"}
\* the providers the environment removes with removeProvider: a configured
\* one and the added one
Removable == {"claude", "local"}
\* "local" is an IProvider that does not implement the optional healthCheck
HasProbe(name) == name # "local"

S_up == <<"u", " ", "p">>
S_UP == <<"U", " ", " ", "P">>
S_um == <<"u", " ", "m">>
Contents == {S_up, S_UP, S_um}
Causes == {"timeout"}
\* a prompt: the caller's text and the debate contexts wrapped around it
PlainPrompt(text) == [text |-> text, context |-> <<>>]
Question == PlainPrompt("q")
\* the contents the providers answer with in a debate
DebateContents == {S_up, S_um}

None == <<>>
Some(v) == <<v>>

\* const x = v; F(x): v is evaluated once and F applied to its value
Bind(v, F(_)) == CHOOSE y \in {F(x) : x \in {v}} : TRUE

\* ------------------------------------------------------------- fractions
Frac(n, d) == <<n, d>>
FLess(a, b) == a[1] * b[2] < b[1] * a[2]
FEq(a, b) == a[1] * b[2] = b[1] * a[2]
FLeq(a, b) == a[1] * b[2] <= b[1] * a[2]
FAdd(a, b) == <<a[1] * b[2] + b[1] * a[2], a[2] * b[2]>>
FMul(a, b) == <<a[1] * b[1], a[2] * b[2]>>
FMin(a, b) == IF FLess(b, a) THEN b ELSE a
Zero == Frac(0, 1)
One == Frac(1, 1)

\* ------------------------------------------------- strings and tokenising
Whitespace == {" ", "\t", "\n"}
Upper == [c \in {"U", "P", "M", "A", "B", "C", "D"} |->
            CASE c = "U" -> "u" [] c = "P" -> "p" [] c = "M" -> "m"
              [] c = "A" -> "a" [] c = "B" -> "b" [] c = "C" -> "c"
              [] c = "D" -> "d"]

\* String.prototype.toLowerCase
toLowerCase(s) == [i \in 1..Len(s) |-> IF s[i] \in DOMAIN Upper THEN Upper[s[i]] ELSE s[i]]

\* String.prototype.split(/\s+/): the pieces between maximal whitespace runs;
\* a leading or trailing run leaves an empty piece, "" splits to [""].
RECURSIVE SplitFrom(_, _, _)
SplitFrom(s, i, cur) ==
  IF i > Len(s) THEN <<cur>>
  ELSE IF s[i] \in Whitespace
       THEN IF i > 1 /\ s[i-1] \in Whitespace
            THEN SplitFrom(s, i + 1, cur)
            ELSE <<cur>> \o SplitFrom(s, i + 1, <<>>)
       ELSE SplitFrom(s, i + 1, Append(cur, s[i]))
split(s) == SplitFrom(s, 1, <<>>)

\* new Set(array)
SetOf(seq) == {seq[i] : i \in DOMAIN seq}

\* ConsensusEngine.areSimilar, the similarity ratio
Jaccard(wordsA, wordsB) ==
  LET intersection == {x \in wordsA : x \in wordsB}
      union == wordsA \cup wordsB
  IN IF Cardinality(union) > 0
     THEN Frac(Cardinality(intersection), Cardinality(union))
     ELSE Zero

\* faulty variant: only a similarity above 1 counts
SimilarityThresholdOne == Frac(1, 1)

SimilarityThreshold == Frac(6, 10)

\* faulty variant: the contents are compared without lower-casing
areSimilarCaseSensitive(a, b) ==
  FLess(SimilarityThreshold, Jaccard(SetOf(split(a.content)), SetOf(split(b.content))))

areSimilar(a, b) ==
  LET wordsA == SetOf(split(toLowerCase(a.content)))
      wordsB == SetOf(split(toLowerCase(b.content)))
      similarity == Jaccard(wordsA, wordsB)
  IN FLess(SimilarityThreshold, similarity)

\* ------------------------------------------------------- consensus engine
\* faulty variant: an absorbed response is not marked
markUsedNever(used, j) == used

\* used.add(j)
markUsed(used, j) == used \cup {j}

\* faulty variant: the candidate is compared with the group's last member
similarToLast(responses, i, group, j) ==
  areSimilar(responses[group[Len(group)]], responses[j])

\* this.areSimilar(responses[i], responses[j]): the candidate j is compared
\* with the seed i of the group
similarToSeed(responses, i, group, j) == areSimilar(responses[i], responses[j])

\* inner loop of groupSimilarResponses: j runs over the responses after seed i
RECURSIVE AbsorbFrom(_, _, _, _, _)
AbsorbFrom(responses, i, j, used, group) ==
  IF j > Len(responses) THEN [used |-> used, group |-> group]
  ELSE IF j \in used THEN AbsorbFrom(responses, i, j + 1, used, group)
  ELSE IF similarToSeed(responses, i, group, j)
       THEN AbsorbFrom(responses, i, j + 1, markUsed(used, j), Append(group, j))
       ELSE AbsorbFrom(responses, i, j + 1, used, group)

\* outer loop of groupSimilarResponses; a group is the sequence of the
\* positions (object references) of its members in responses
RECURSIVE GroupFrom(_, _, _, _)
GroupFrom(responses, i, used, groups) ==
  IF i > Len(responses) THEN groups
  ELSE IF i \in used THEN GroupFrom(responses, i + 1, used, groups)
  ELSE LET r == AbsorbFrom(responses, i, i + 1, used \cup {i}, <<i>>)
       IN GroupFrom(responses, i + 1, r.used, Append(groups, r.group))

groupSimilarResponses(responses) == GroupFrom(responses, 1, {}, <<>>)

\* faulty variant: a later group of the same length replaces the maximum
RECURSIVE ReduceLargestLastTie(_, _, _)
ReduceLargestLastTie(groups, k, max) ==
  IF k > Len(groups) THEN max
  ELSE ReduceLargestLastTie(groups, k + 1, IF Len(groups[k]) >= Len(max) THEN groups[k] ELSE max)
largestGroupOfLastTie(groups) == ReduceLargestLastTie(groups, 2, groups[1])

\* groups.reduce((max, group) => group.length > max.length ? group : max)
RECURSIVE ReduceLargest(_, _, _)
ReduceLargest(groups, k, max) ==
  IF k > Len(groups) THEN max
  ELSE ReduceLargest(groups, k + 1, IF Len(groups[k]) > Len(max) THEN groups[k] ELSE max)
largestGroupOf(groups) == ReduceLargest(groups, 2, groups[1])

\* faulty variant: the boost is not capped
calculateConfidenceUncapped(majorityGroup, allResponses) ==
  LET agreementRatio == Frac(Len(majorityGroup), Len(allResponses))
  IN IF Len(majorityGroup) = Len(allResponses)
     THEN FMul(agreementRatio, Frac(12, 10)) ELSE agreementRatio

calculateConfidence(majorityGroup, allResponses) ==
  LET agreementRatio == Frac(Len(majorityGroup), Len(allResponses))
      unanimity == Len(majorityGroup) = Len(allResponses)
  IN IF unanimity THEN FMin(One, FMul(agreementRatio, Frac(12, 10))) ELSE agreementRatio

\* faulty variant: the last response of the group is returned
synthesizeResponseLast(responses, group) == responses[group[Len(group)]].content

synthesizeResponse(responses, group) == responses[group[1]].content

\* Math.round of a non-negative fraction
MathRound(f) == (2 * f[1] + f[2]) \div (2 * f[2])

generateReasoning(majorityLen, dissentingLen) ==
  [agreementPercent |-> MathRound(Frac(100 * majorityLen, majorityLen + dissentingLen)),
   alternatives |-> dissentingLen]

\* faulty variant: only the seed of the majority group is filtered out
dissentingOfSeedOnly(responses, largestGroup) ==
  SelectSeq([i \in 1..Len(responses) |-> i], LAMBDA i : i # largestGroup[1])

\* responses.filter(r => !largestGroup.includes(r)), as positions
dissentingOf(responses, largestGroup) ==
  SelectSeq([i \in 1..Len(responses) |-> i], LAMBDA i : i \notin SetOf(largestGroup))

\* faulty variant: the share of the responses outside the majority group
agreementOfDissent(largestGroup, responses) ==
  Frac(Len(responses) - Len(largestGroup), Len(responses))

agreementOf(largestGroup, responses) == Frac(Len(largestGroup), Len(responses))

dissentingField(responses, dissenting) ==
  IF Len(dissenting) > 0 THEN Some([k \in 1..Len(dissenting) |-> responses[dissenting[k]]]) ELSE None

calculateConsensus(responses) ==
  LET groups == groupSimilarResponses(responses)
      largestGroup == largestGroupOf(groups)
      agreement == agreementOf(largestGroup, responses)
      confidence == calculateConfidence(largestGroup, responses)
      dissenting == dissentingOf(responses, largestGroup)
  IN [result |-> synthesizeResponse(responses, largestGroup),
      confidence |-> confidence,
      agreement |-> agreement,
      reasoning |-> generateReasoning(Len(largestGroup), Len(dissenting)),
      dissenting |-> dissentingField(responses, dissenting)]

\* -------------------------------------------------------------- registry
\* the Map's keys in insertion order; Map.set on a present key keeps its place
register(reg, name) == IF name \in SetOf(reg) THEN reg ELSE Append(reg, name)
remove(reg, name) == SelectSeq(reg, LAMBDA n : n # name)
list(reg) == reg
has(reg, name) == name \in SetOf(reg)

\* the values of the Map: the provider instance stored under each name, told
\* apart by the apiKey of the ProviderConfig it was created for
\* faulty variant: a name already present keeps its instance
storeInstanceKeepFirst(map, name, provider) ==
  [n \in DOMAIN map \cup {name} |-> IF n \in DOMAIN map THEN map[n] ELSE provider]

\* this.providers.set(name, provider)
storeInstance(map, name, provider) ==
  [n \in DOMAIN map \cup {name} |-> IF n = name THEN provider ELSE map[n]]

\* this.providers.delete(name)
dropInstance(map, name) == [n \in DOMAIN map \ {name} |-> map[n]]

\* the apiKey of every configured provider, and the apiKeys addProvider is
\* called with
ConfiguredKey == "key0"
ProviderConfigs == {"key1"}

\* ---------------------------------------------------------------- errors
Err(kind, provider, cause) == [kind |-> kind, provider |-> provider, cause |-> cause]
NoError == Err("none", "", "")
\* new Error('No providers available for consensus')
NoProvidersError == Err("NoProviders", "", "")
\* new Error(`Provider ${name} not found`)
ProviderNotFoundError(name) == Err("ProviderNotFound", name, "")
\* the value a provider's complete() rejected with, as Promise.all passes it on
Rejection(name, cause) == Err("raw", "", cause)

\* ----------------------------------------------------------------- state
VARIABLES
  config,      \* OrchestraConfig held by the facade
  registry,    \* ProviderRegistry.providers: registered names, insertion order
  instances,   \* ProviderRegistry.providers: the instance stored under each name
  initIdx,     \* initialize(): how many configured providers it has registered
  initialized, \* initialize(): 'initialized' has been emitted
  adding,      \* addProvider calls suspended between register and emit
  op,          \* the facade call in flight or last finished
  status,      \* "idle", "pending", "resolved" or "rejected"
  args,        \* its arguments
  locals,      \* its local variables
  slots,       \* the promises of its current fan-out, in provider order
  invoked,     \* the complete() invocations it made, in order
  events,      \* the events it emitted, in order
  result,      \* the value it resolved with
  error,       \* the value it rejected with
  emitted      \* the last event initialize, addProvider or removeProvider emitted

vars == <<config, registry, instances, initIdx, initialized, adding, op, status, args,
          locals, slots, invoked, events, result, error, emitted>>
registryVars == <<registry, instances, initIdx, initialized, adding, emitted>>
callVars == <<op, status, args, locals, slots, invoked, events, result, error>>

Configs ==
  { [providers |-> <<>>, defaultProvider |-> Some("local"),
     consensusThreshold |-> Some(Frac(9, 10)), maxDebateRounds |-> Some(2),
     timeout |-> Some(30)],
    [providers |-> <<"openai", "claude">>, defaultProvider |-> None,
     consensusThreshold |-> None, maxDebateRounds |-> None,
     timeout |-> None] }

NoResult == [kind |-> "none"]
NoLocals == [kind |-> "none"]
NoArgs == [kind |-> "none"]
NoEvent == [name |-> "", payload |-> [name |-> ""]]
\* this.emit('initialized', { providers: Object.keys(this.config.providers) })
InitializedEvent(cfg) == [name |-> "initialized", payload |-> [providers |-> cfg.providers]]
\* this.emit('provider:added', { name }), this.emit('provider:removed', { name })
ProviderAdded(name) == [name |-> "provider:added", payload |-> [name |-> name]]
ProviderRemoved(name) == [name |-> "provider:removed", payload |-> [name |-> name]]

\* the state when the Orchestra constructor returns: initialize() has run up
\* to its first await, so the first configured provider is registered; with
\* no provider configured it has run to its end and emitted 'initialized'
Init ==
  /\ config \in Configs
  /\ registry = IF Len(config.providers) > 0 THEN register(<<>>, config.providers[1]) ELSE <<>>
  /\ instances = [n \in SetOf(registry) |-> ConfiguredKey]
  /\ initIdx = IF Len(config.providers) > 0 THEN 1 ELSE 0
  /\ initialized = (Len(config.providers) = 0)
  /\ adding = {}
  /\ op = "none"
  /\ status = "idle"
  /\ args = NoArgs
  /\ locals = NoLocals
  /\ slots = <<>>
  /\ invoked = <<>>
  /\ events = <<>>
  /\ result = NoResult
  /\ error = NoError
  /\ emitted = IF Len(config.providers) = 0 THEN InitializedEvent(config) ELSE NoEvent

\* initialize() resumes after an await: registers the next configured
\* provider, or leaves the loop and emits 'initialized'
InitializeStep ==
  /\ ~initialized
  /\ IF initIdx < Len(config.providers)
     THEN /\ registry' = register(registry, config.providers[initIdx + 1])
          /\ instances' = storeInstance(instances, config.providers[initIdx + 1], ConfiguredKey)
          /\ initIdx' = initIdx + 1
          /\ UNCHANGED <<initialized, emitted>>
     ELSE /\ initialized' = TRUE
          /\ emitted' = InitializedEvent(config)
          /\ UNCHANGED <<registry, instances, initIdx>>
  /\ UNCHANGED <<config, adding>>
  /\ UNCHANGED callVars

\* the names of the suspended addProvider calls
AddingNames == {a.name : a \in adding}

\* addProvider up to its await: the registry holds the name (one suspended
\* addProvider per name is followed at a time)
AddProvider(name, providerConfig) ==
  /\ name \notin AddingNames
  /\ registry' = register(registry, name)
  /\ instances' = storeInstance(instances, name, providerConfig)
  /\ adding' = adding \cup {[name |-> name, config |-> providerConfig]}
  /\ UNCHANGED <<config, initIdx, initialized, emitted>>
  /\ UNCHANGED callVars

\* addProvider after its await: emit 'provider:added'
AddProviderEmit(name) ==
  /\ name \in AddingNames
  /\ adding' = {a \in adding : a.name # name}
  /\ emitted' = ProviderAdded(name)
  /\ UNCHANGED <<config, registry, instances, initIdx, initialized>>
  /\ UNCHANGED callVars

\* faulty variant: removeProvider deletes the name from config.providers too
configWithout(cfg, name) ==
  [cfg EXCEPT !.providers = SelectSeq(cfg.providers, LAMBDA n : n # name)]

\* this.config after removeProvider: the method does not touch it
configKept(cfg, name) == cfg

\* removeProvider: registry.remove, then emit 'provider:removed'
RemoveProvider(name) ==
  /\ registry' = remove(registry, name)
  /\ instances' = dropInstance(instances, name)
  /\ emitted' = ProviderRemoved(name)
  /\ config' = configKept(config, name)
  /\ UNCHANGED <<initIdx, initialized, adding>>
  /\ UNCHANGED callVars

\* ------------------------------------------------------------ fan-out
Pending == [state |-> "pending", content |-> <<>>, error |-> NoError]
Fulfilled(content) == [state |-> "fulfilled", content |-> content, error |-> NoError]
Rejected(e) == [state |-> "rejected", content |-> <<>>, error |-> e]

\* faulty variant: the join resolves with the first fulfilled promise
SomeFulfilled(ss) == \E i \in DOMAIN ss : ss[i].state = "fulfilled"

\* Promise.all resolves when every promise is fulfilled
AllFulfilled(ss) == \A i \in DOMAIN ss : ss[i].state = "fulfilled"
AnyRejected(ss) == \E i \in DOMAIN ss : ss[i].state = "rejected"
FirstRejected(ss) == ss[CHOOSE i \in DOMAIN ss : ss[i].state = "rejected" /\ \A j \in 1..(i-1) : ss[j].state # "rejected"]

\* faulty variant: a name the registry does not hold is passed over
getResponsesSlotsSkipMissing(reg, providerNames) ==
  [i \in 1..Len(providerNames) |-> Pending]

\* ConsensusEngine.getResponses, the synchronous map: a name the registry
\* does not hold gives a rejected promise, any other a pending complete()
getResponsesSlots(reg, providerNames) ==
  [i \in 1..Len(providerNames) |->
     IF has(reg, providerNames[i]) THEN Pending
     ELSE Rejected(ProviderNotFoundError(providerNames[i]))]

Invocation(name, prompt) == [provider |-> name, prompt |-> prompt]
getResponsesInvoked(reg, providerNames, prompt) ==
  LET found == SelectSeq(providerNames, LAMBDA n : has(reg, n))
  IN [i \in 1..Len(found) |-> Invocation(found[i], prompt)]

\* the Response a provider's complete() fulfils with
Response(content, provider) == [content |-> content, provider |-> provider]

\* faulty variant: the values are collected last-listed first
collectResponsesReversed(ss, names) ==
  [k \in 1..Len(ss) |-> Response(ss[Len(ss) + 1 - k].content, names[Len(ss) + 1 - k])]

\* the array Promise.all resolves with: the k-th value is the k-th promise's,
\* whenever it was fulfilled
collectResponses(ss, names) ==
  [k \in 1..Len(ss) |-> Response(ss[k].content, names[k])]

\* the i-th call settles while the call of an earlier-listed provider is
\* still pending
Overtakes(ss, i) == \E j \in 1..(i - 1) : ss[j].state = "pending"

\* ------------------------------------------------------------ consensus
\* faulty variant: an empty options.providers falls back to the registry
resolveProviderNamesNonEmpty(options, reg) ==
  IF options.providers # None /\ Len(options.providers[1]) > 0
  THEN options.providers[1] ELSE list(reg)

\* faulty variant: the default provider set is the configured one, not the registry
resolveProviderNamesConfig(options, reg) ==
  IF options.providers # None THEN options.providers[1] ELSE config.providers

\* options?.providers || this.registry.list()   (an empty array is truthy)
resolveProviderNames(options, reg) ==
  IF options.providers # None THEN options.providers[1] ELSE list(reg)

Event(name, payload) == [name |-> name, payload |-> payload]

RECURSIVE ListsUpTo(_)
ListsUpTo(n) ==
  IF n = 0 THEN {<<>>}
  ELSE LET shorter == ListsUpTo(n - 1)
       IN shorter \cup {Append(l, x) : l \in {s \in shorter : Len(s) = n - 1}, x \in Listed}

ConsensusOptions == [providers : {None} \cup {Some(l) : l \in ListsUpTo(MaxProviders)}]

\* Orchestra.consensus with ConsensusEngine.buildConsensus, up to the await
ConsensusStart(options) ==
  /\ status # "pending"
  /\ op' = "consensus"
  /\ args' = [options |-> options]
  /\ LET providerNames == resolveProviderNames(options, registry)
         start == Event("consensus:start", [prompt |-> Question, options |-> options])
     IN /\ events' = <<start>>
        /\ locals' = [providerNames |-> providerNames, responses |-> <<>>,
                      groups |-> <<>>, largestGroup |-> <<>>, overtaken |-> FALSE]
        /\ IF Len(providerNames) = 0
           THEN /\ status' = "rejected"
                /\ error' = NoProvidersError
                /\ slots' = <<>>
                /\ invoked' = <<>>
           ELSE LET ss == getResponsesSlots(registry, providerNames)
                IN /\ slots' = ss
                   /\ invoked' = getResponsesInvoked(registry, providerNames, Question)
                   /\ IF AnyRejected(ss)
                      THEN /\ status' = "rejected"
                           /\ error' = FirstRejected(ss).error
                      ELSE /\ status' = "pending"
                           /\ error' = NoError
  /\ result' = NoResult
  /\ UNCHANGED config
  /\ UNCHANGED registryVars

\* buildConsensus after the await, and Orchestra.consensus to its return
buildConsensusResult(providerNames, responses) ==
  LET r == calculateConsensus(responses)
  IN [result |-> r.result, confidence |-> r.confidence, agreement |-> r.agreement,
      reasoning |-> r.reasoning, dissenting |-> r.dissenting,
      providers |-> providerNames,
      metadata |-> [rounds |-> 1]]

\* a provider's complete() fulfils; the last one lets Promise.all resolve
\* (once the call has settled, nothing listens to the promises left over)
ConsensusFulfil(i, content) ==
  /\ op = "consensus"
  /\ status = "pending"
  /\ i \in DOMAIN slots
  /\ slots[i].state = "pending"
  /\ LET ss == [slots EXCEPT ![i] = Fulfilled(content)]
         responses == collectResponses(ss, locals.providerNames)
         overtaken == locals.overtaken \/ Overtakes(slots, i)
     IN /\ slots' = ss
        /\ IF AllFulfilled(ss)
           THEN LET res == buildConsensusResult(locals.providerNames, responses)
                    groups == groupSimilarResponses(responses)
                IN /\ status' = "resolved"
                   /\ result' = res
                   /\ locals' = [locals EXCEPT !.responses = responses,
                                                !.groups = groups,
                                                !.largestGroup = largestGroupOf(groups),
                                                !.overtaken = overtaken]
                   /\ events' = Append(events, Event("consensus:complete", res))
           ELSE /\ locals' = [locals EXCEPT !.overtaken = overtaken]
                /\ UNCHANGED <<status, result, events>>
  /\ UNCHANGED <<config, op, args, invoked, error>>
  /\ UNCHANGED registryVars

\* faulty variant: consensus:complete is emitted when buildConsensus rejects
eventsOnRejectionFinally(evs) == Append(evs, Event("consensus:complete", NoResult))

\* const result = await buildConsensus(...) throws: consensus() is left
\* before its emit('consensus:complete')
eventsOnRejection(evs) == evs

\* faulty variant: a rejected complete() is invoked once more
invokedOnRejectionRetry(inv, name, prompt) == Append(inv, Invocation(name, prompt))

\* the invocations after a complete() rejected: the rejection goes to
\* Promise.all as it is, nothing is called again
invokedOnRejection(inv, name, prompt) == inv

\* a provider's complete() rejects; the first rejection rejects Promise.all
ConsensusReject(i, cause) ==
  /\ op = "consensus"
  /\ status = "pending"
  /\ i \in DOMAIN slots
  /\ slots[i].state = "pending"
  /\ LET e == Rejection(locals.providerNames[i], cause)
     IN /\ slots' = [slots EXCEPT ![i] = Rejected(e)]
        /\ status' = "rejected"
        /\ error' = e
  /\ events' = eventsOnRejection(events)
  /\ invoked' = invokedOnRejection(invoked, locals.providerNames[i], Question)
  /\ UNCHANGED <<config, op, args, locals, result>>
  /\ UNCHANGED registryVars

RegistryNext ==
  \/ InitializeStep
  \/ \E name \in Addable, providerConfig \in ProviderConfigs : AddProvider(name, providerConfig)
  \/ \E name \in Addable : AddProviderEmit(name)
  \/ \E name \in Removable : RemoveProvider(name)

ConsensusNext ==
  \/ \E options \in ConsensusOptions : ConsensusStart(options)
  \/ \E i \in DOMAIN slots, content \in Contents : ConsensusFulfil(i, content)
  \/ \E i \in DOMAIN slots, cause \in Causes : ConsensusReject(i, cause)

SpecConsensus == Init /\ [][RegistryNext \/ ConsensusNext]_vars

\* --------------------------------------------------------------- debate
DefaultMaxRounds == 3
DefaultThreshold == Frac(7, 10)
PreviewLen == 200

\* a || b for an optional number: undefined and 0 are falsy
TruthyInt(o) == o # None /\ o[1] # 0
TruthyFrac(o) == o # None /\ o[1][1] # 0

\* options?.maxRounds || this.config.maxDebateRounds || 3
resolveMaxRounds(options, cfg) ==
  IF TruthyInt(options.maxRounds) THEN options.maxRounds[1]
  ELSE IF TruthyInt(cfg.maxDebateRounds) THEN cfg.maxDebateRounds[1]
  ELSE DefaultMaxRounds

\* options?.threshold || this.config.consensusThreshold || 0.7
resolveThreshold(options, cfg) ==
  IF TruthyFrac(options.threshold) THEN options.threshold[1]
  ELSE IF TruthyFrac(cfg.consensusThreshold) THEN cfg.consensusThreshold[1]
  ELSE DefaultThreshold

\* options?.providers || Object.keys(this.config.providers)
resolveParticipants(options, cfg) ==
  IF options.providers # None THEN options.providers[1] ELSE cfg.providers

\* faulty variant: options.provider is not looked at
resolveQueryProviderDefaultOnly(provider, cfg) ==
  IF cfg.defaultProvider # None /\ cfg.defaultProvider[1] # "" THEN cfg.defaultProvider[1]
  ELSE "openai"

\* Orchestra.query: options?.provider || this.config.defaultProvider || 'openai'
resolveQueryProvider(provider, cfg) ==
  IF provider # None /\ provider[1] # "" THEN provider[1]
  ELSE IF cfg.defaultProvider # None /\ cfg.defaultProvider[1] # "" THEN cfg.defaultProvider[1]
  ELSE "openai"

\* Orchestra.query up to its await, for each participant of a round
querySlots(reg, providers, cfg) ==
  [i \in 1..Len(providers) |->
     LET providerName == resolveQueryProvider(Some(providers[i]), cfg)
     IN IF has(reg, providerName) THEN Pending
        ELSE Rejected(ProviderNotFoundError(providerName))]

queryInvoked(reg, providers, cfg, prompt) ==
  LET names == [i \in 1..Len(providers) |-> resolveQueryProvider(Some(providers[i]), cfg)]
      found == SelectSeq(names, LAMBDA n : has(reg, n))
  IN [i \in 1..Len(found) |-> Invocation(found[i], prompt)]

\* Orchestra.calculateSimilarity
calculateSimilarity(a, b) == Jaccard(SetOf(split(a)), SetOf(split(b)))

\* the two nested loops of calculateAgreement
RECURSIVE PairLoop(_, _, _, _)
PairLoop(contents, i, j, acc) ==
  IF i > Len(contents) THEN acc
  ELSE IF j > Len(contents) THEN PairLoop(contents, i + 1, i + 2, acc)
  ELSE PairLoop(contents, i, j + 1,
                [totalSimilarity |-> FAdd(acc.totalSimilarity, calculateSimilarity(contents[i], contents[j])),
                 comparisons |-> acc.comparisons + 1])

\* faulty variant: at most one response counts as no agreement
calculateAgreementZeroForOne(responses) ==
  IF Len(responses) <= 1 THEN Zero
  ELSE Bind([k \in 1..Len(responses) |-> toLowerCase(responses[k].content)],
            LAMBDA contents :
              Bind(PairLoop(contents, 1, 2, [totalSimilarity |-> Zero, comparisons |-> 0]),
                   LAMBDA acc : FMul(acc.totalSimilarity, Frac(1, acc.comparisons))))

\* Orchestra.calculateAgreement
calculateAgreement(responses) ==
  IF Len(responses) <= 1 THEN One
  ELSE Bind([k \in 1..Len(responses) |-> toLowerCase(responses[k].content)],
            LAMBDA contents :
              Bind(PairLoop(contents, 1, 2, [totalSimilarity |-> Zero, comparisons |-> 0]),
                   LAMBDA acc :
                     IF acc.comparisons > 0
                     THEN FMul(acc.totalSimilarity, Frac(1, acc.comparisons))
                     ELSE Zero))

\* String.prototype.substring(0, n)
substring(str, n) == SubSeq(str, 1, IF Len(str) < n THEN Len(str) ELSE n)

\* Orchestra.buildDebatePrompt: the template wraps the prompt it is given
\* and the previews of the last round's arguments
buildDebatePrompt(originalPrompt, rounds) ==
  LET lastRound == rounds[Len(rounds)]
      perspectives == [k \in 1..Len(lastRound.arguments) |->
                         [provider |-> lastRound.arguments[k].provider,
                          preview |-> substring(lastRound.arguments[k].content, PreviewLen)]]
  IN [text |-> originalPrompt.text,
      context |-> Append(originalPrompt.context, perspectives)]

\* faulty variant: the decision is taken from the first round
synthesizeDecisionFirstRound(rounds) ==
  IF Len(rounds) = 0 THEN [throws |-> TRUE, content |-> <<>>]
  ELSE IF Len(rounds[1].arguments) = 0 THEN [throws |-> TRUE, content |-> <<>>]
       ELSE [throws |-> FALSE, content |-> rounds[1].arguments[1].content]

\* Orchestra.synthesizeDecision; reading a field of undefined throws TypeError
synthesizeDecision(rounds) ==
  IF Len(rounds) = 0 THEN [throws |-> TRUE, content |-> <<>>]
  ELSE LET lastRound == rounds[Len(rounds)]
       IN IF Len(lastRound.arguments) = 0 THEN [throws |-> TRUE, content |-> <<>>]
          ELSE [throws |-> FALSE, content |-> lastRound.arguments[1].content]

TypeError == Err("TypeError", "", "")

\* faulty variant: the round budget is tested with <=
LoopContinuesOneMore(agreement, threshold, round, maxRounds) ==
  FLess(agreement, threshold) /\ round <= maxRounds

\* faulty variant: the round budget is not tested
LoopContinuesNoBudget(agreement, threshold, round, maxRounds) ==
  FLess(agreement, threshold)

\* while (agreement < threshold && round < maxRounds)
LoopContinues(agreement, threshold, round, maxRounds) ==
  FLess(agreement, threshold) /\ round < maxRounds

\* faulty variant: the round is numbered before round++
DebateRoundZeroBased(round, arguments, agreement) ==
  [round |-> round - 1, arguments |-> arguments, agreement |-> agreement]

DebateRound(round, arguments, agreement) ==
  [round |-> round, arguments |-> arguments, agreement |-> agreement]

\* the DebateResult built after the loop
debateResult(decision, l) ==
  [decision |-> decision, rounds |-> l.rounds, agreement |-> l.agreement,
   participants |-> l.providers, confidence |-> l.agreement]

\* debate from the loop test to its next await or to its end (DebateLoop), and
\* from the resolution of a round's Promise.all to the loop test
\* (DebateRoundDone); f holds the call's locals, promises, invocations,
\* events and outcome, reg the registry, cfg the configuration.  A loop that
\* would enter a round beyond RoundCap is not followed further.
RECURSIVE DebateLoop(_, _, _), DebateRoundDone(_, _, _)
DebateLoop(f, reg, cfg) ==
  IF LoopContinues(f.l.agreement, f.l.threshold, f.l.round, f.l.maxRounds)
  THEN IF f.l.round >= RoundCap THEN f
       ELSE LET ss == querySlots(reg, f.l.providers, cfg)
                f1 == [f EXCEPT !.l.round = f.l.round + 1,
                                !.l.overtaken = FALSE,
                                !.slots = ss,
                                !.invoked = f.invoked \o queryInvoked(reg, f.l.providers, cfg, f.l.prompt)]
            IN IF Len(ss) = 0 THEN Bind(f1, LAMBDA g : DebateRoundDone(g, reg, cfg))
               ELSE IF AnyRejected(ss)
                    THEN [f1 EXCEPT !.status = "rejected", !.error = FirstRejected(ss).error]
                    ELSE f1
  ELSE LET decision == synthesizeDecision(f.l.rounds)
       IN IF decision.throws
          THEN [f EXCEPT !.status = "rejected", !.error = TypeError]
          ELSE LET res == debateResult(decision.content, f.l)
               IN [f EXCEPT !.status = "resolved", !.result = res,
                            !.events = Append(f.events, Event("debate:complete", res))]

\* faulty variant: the event carries the number of the round before
roundEventPrevious(round, agreement) ==
  Event("debate:round", [round |-> round - 1, agreement |-> agreement])

\* this.emit('debate:round', { round, agreement })
roundEvent(round, agreement) ==
  Event("debate:round", [round |-> round, agreement |-> agreement])

\* the frame after a round: agreement computed, round appended,
\* 'debate:round' emitted, prompt rewritten when another round follows
roundAppended(f, responses, agreement) ==
  LET rounds == Append(f.l.rounds, DebateRound(f.l.round, responses, agreement))
      prompt == IF LoopContinues(agreement, f.l.threshold, f.l.round, f.l.maxRounds)
                THEN buildDebatePrompt(f.l.prompt, rounds)
                ELSE f.l.prompt
  IN [f EXCEPT !.l.agreement = agreement,
               !.l.rounds = rounds,
               !.l.prompt = prompt,
               !.events = Append(f.events, roundEvent(f.l.round, agreement))]

DebateRoundDone(f, reg, cfg) ==
  Bind(collectResponses(f.slots,
                        [k \in 1..Len(f.l.providers) |->
                           resolveQueryProvider(Some(f.l.providers[k]), cfg)]),
       LAMBDA responses :
         Bind(calculateAgreement(responses),
              LAMBDA agreement :
                Bind(roundAppended(f, responses, agreement),
                     LAMBDA g : DebateLoop(g, reg, cfg))))

Thresholds == {Frac(0, 1), Frac(1, 2), Frac(1, 1)}
DebateParticipantLists == {<<>>, <<"openai">>, <<"claude", "openai">>, <<"openai", "local">>}
DebateOptions ==
  [providers : {None} \cup {Some(l) : l \in DebateParticipantLists},
   maxRounds : {None} \cup {Some(k) : k \in 1..MaxRoundsArg},
   threshold : {None} \cup {Some(t) : t \in Thresholds}]

\* Orchestra.debate up to its first await
DebateStart(options) ==
  /\ status # "pending"
  /\ op' = "debate"
  /\ args' = [options |-> options]
  /\ LET f0 == [l |-> [rounds |-> <<>>, agreement |-> Zero, round |-> 0,
                       maxRounds |-> resolveMaxRounds(options, config),
                       threshold |-> resolveThreshold(options, config),
                       providers |-> resolveParticipants(options, config),
                       prompt |-> Question, overtaken |-> FALSE],
                slots |-> <<>>, invoked |-> <<>>,
                events |-> <<Event("debate:start", [prompt |-> Question, options |-> options])>>,
                status |-> "pending", result |-> NoResult, error |-> NoError]
     IN \E f \in {DebateLoop(f0, registry, config)} :
        /\ locals' = f.l
        /\ slots' = f.slots
        /\ invoked' = f.invoked
        /\ events' = f.events
        /\ status' = f.status
        /\ result' = f.result
        /\ error' = f.error
  /\ UNCHANGED config
  /\ UNCHANGED registryVars

\* a participant's complete() fulfils; the last one of the round lets
\* Promise.all resolve and the loop go on
DebateFulfil(i, content) ==
  /\ op = "debate"
  /\ status = "pending"
  /\ i \in DOMAIN slots
  /\ slots[i].state = "pending"
  /\ \E f0 \in {[l |-> [locals EXCEPT !.overtaken = locals.overtaken \/ Overtakes(slots, i)],
                   slots |-> [slots EXCEPT ![i] = Fulfilled(content)],
                   invoked |-> invoked, events |-> events,
                   status |-> status, result |-> result, error |-> error]} :
     \E f \in {IF AllFulfilled(f0.slots) THEN DebateRoundDone(f0, registry, config) ELSE f0} :
        /\ locals' = f.l
        /\ slots' = f.slots
        /\ invoked' = f.invoked
        /\ events' = f.events
        /\ status' = f.status
        /\ result' = f.result
        /\ error' = f.error
  /\ UNCHANGED <<config, op, args>>
  /\ UNCHANGED registryVars

\* faulty variant: the round is reported although its join rejected
debateEventsOnRejectionRound(evs, round) ==
  Append(evs, Event("debate:round", [round |-> round, agreement |-> Zero]))

\* await Promise.all(...) throws: debate() is left before rounds.push and
\* before its emits
debateEventsOnRejection(evs, round) == evs

\* a participant's complete() rejects: Promise.all and debate reject
DebateReject(i, cause) ==
  /\ op = "debate"
  /\ status = "pending"
  /\ i \in DOMAIN slots
  /\ slots[i].state = "pending"
  /\ LET e == Rejection(locals.providers[i], cause)
     IN /\ slots' = [slots EXCEPT ![i] = Rejected(e)]
        /\ status' = "rejected"
        /\ error' = e
  /\ invoked' = invokedOnRejection(invoked, locals.providers[i], locals.prompt)
  /\ events' = debateEventsOnRejection(events, locals.round)
  /\ UNCHANGED <<config, op, args, locals, result>>
  /\ UNCHANGED registryVars

DebateNext ==
  \/ \E options \in DebateOptions : DebateStart(options)
  \/ \E i \in DOMAIN slots, content \in DebateContents : DebateFulfil(i, content)
  \/ \E i \in DOMAIN slots, cause \in Causes : DebateReject(i, cause)

DebateRegistryNext ==
  \/ InitializeStep
  \/ \E name \in Removable : RemoveProvider(name)

SpecDebate == Init /\ [][DebateRegistryNext \/ DebateNext]_vars

\* the debates followed to their end: every provider call eventually settles
DebateLiveOptions ==
  [providers : {None, Some(<<"claude", "openai">>)},
   maxRounds : {None} \cup {Some(k) : k \in 1..MaxRoundsArg},
   threshold : {None, Some(Frac(1, 1))}]
DebateSettle ==
  \/ \E i \in DOMAIN slots, content \in DebateContents : DebateFulfil(i, content)
  \/ \E i \in DOMAIN slots, cause \in Causes : DebateReject(i, cause)
DebateLiveNext ==
  \/ \E options \in DebateLiveOptions : DebateStart(options)
  \/ DebateSettle
  \/ DebateRegistryNext
SpecDebateLive == Init /\ [][DebateLiveNext]_vars /\ WF_vars(DebateSettle)

\* ---------------------------------------------------------- healthCheck
\* what a provider's healthCheck() does: returns true or false, or throws
ProbeOutcomes == {"true", "false", "throws"}

EmptyHealth == [n \in {} |-> TRUE]
SetHealth(health, provider, value) ==
  [n \in DOMAIN health \cup {provider} |-> IF n = provider THEN value ELSE health[n]]

\* faulty variant: no try/catch around the probe
probeEntryUncaught(outcome) ==
  [throws |-> outcome = "throws", value |-> outcome = "true"]

\* try { health[provider] = await p.healthCheck() } catch { health[provider] = false }
probeEntry(outcome) ==
  [throws |-> FALSE, value |-> IF outcome = "throws" THEN FALSE ELSE outcome = "true"]

\* health[provider] = true // Assume healthy if no health check
noProbeEntry(provider) == TRUE

\* the for loop of healthCheck from position idx up to its next await: a
\* provider the registry no longer holds, or one without a probe, is entered
\* as healthy at once
RECURSIVE RunHealthCheck(_, _, _, _)
RunHealthCheck(providers, idx, health, reg) ==
  IF idx > Len(providers) THEN [done |-> TRUE, idx |-> idx, health |-> health]
  ELSE IF has(reg, providers[idx]) /\ HasProbe(providers[idx])
       THEN [done |-> FALSE, idx |-> idx, health |-> health]
       ELSE RunHealthCheck(providers, idx + 1,
                           SetHealth(health, providers[idx], noProbeEntry(providers[idx])), reg)

\* Orchestra.healthCheck up to its first await (or to its return)
HealthCheckStart ==
  /\ status # "pending"
  /\ op' = "healthCheck"
  /\ args' = NoArgs
  /\ LET providers == list(registry)
         r == RunHealthCheck(providers, 1, EmptyHealth, registry)
     IN /\ locals' = [providers |-> providers, idx |-> r.idx, health |-> r.health,
                      probed |-> EmptyHealth]
        /\ status' = IF r.done THEN "resolved" ELSE "pending"
        /\ result' = IF r.done THEN r.health ELSE NoResult
  /\ slots' = <<>>
  /\ invoked' = <<>>
  /\ events' = <<>>
  /\ error' = NoError
  /\ UNCHANGED config
  /\ UNCHANGED registryVars

\* the awaited probe settles: its entry is written and the loop goes on
ProbeSettle(outcome) ==
  /\ op = "healthCheck"
  /\ status = "pending"
  /\ LET provider == locals.providers[locals.idx]
         entry == probeEntry(outcome)
         probed == [n \in DOMAIN locals.probed \cup {provider} |->
                      IF n = provider THEN outcome ELSE locals.probed[n]]
     IN IF entry.throws
        THEN /\ status' = "rejected"
             /\ error' = Err("raw", "", outcome)
             /\ locals' = [locals EXCEPT !.probed = probed]
             /\ UNCHANGED result
        ELSE LET r == RunHealthCheck(locals.providers, locals.idx + 1,
                                     SetHealth(locals.health, provider, entry.value), registry)
             IN /\ locals' = [locals EXCEPT !.idx = r.idx, !.health = r.health,
                                            !.probed = probed]
                /\ status' = IF r.done THEN "resolved" ELSE "pending"
                /\ result' = IF r.done THEN r.health ELSE NoResult
                /\ UNCHANGED error
  /\ UNCHANGED <<config, op, args, slots, invoked, events>>
  /\ UNCHANGED registryVars

HealthNext ==
  \/ HealthCheckStart
  \/ \E outcome \in ProbeOutcomes : ProbeSettle(outcome)

SpecHealth == Init /\ [][RegistryNext \/ HealthNext]_vars

\* ----------------------------------------------------------------- query
\* options.provider: absent, or one of the provider names
QueryOptions == [provider : {None} \cup {Some(n) : n \in Names}]
\* the provider field a provider's own Response carries: its registered name
\* or the name of the upstream model it wraps
ResponseLabels(providerName) == {providerName, "upstream"}

\* faulty variant: the provider's own label is kept
queryResultUnlabelled(response, providerName) == response

\* { ...response, provider: providerName, latency }
queryResult(response, providerName) == [response EXCEPT !.provider = providerName]

\* Orchestra.query up to its await (or to its throw)
QueryStart(options) ==
  /\ status # "pending"
  /\ op' = "query"
  /\ args' = [options |-> options]
  /\ LET providerName == resolveQueryProvider(options.provider, config)
     IN /\ locals' = [providerName |-> providerName]
        /\ IF has(registry, providerName)
           THEN /\ slots' = <<Pending>>
                /\ invoked' = <<Invocation(providerName, Question)>>
                /\ status' = "pending"
                /\ error' = NoError
           ELSE /\ slots' = <<>>
                /\ invoked' = <<>>
                /\ status' = "rejected"
                /\ error' = ProviderNotFoundError(providerName)
  /\ events' = <<>>
  /\ result' = NoResult
  /\ UNCHANGED config
  /\ UNCHANGED registryVars

\* the awaited complete() fulfils: query returns the relabelled response
QueryFulfil(content, label) ==
  /\ op = "query"
  /\ status = "pending"
  /\ label \in ResponseLabels(locals.providerName)
  /\ slots' = <<Fulfilled(content)>>
  /\ result' = queryResult(Response(content, label), locals.providerName)
  /\ status' = "resolved"
  /\ UNCHANGED <<config, op, args, locals, invoked, events, error>>
  /\ UNCHANGED registryVars

\* the awaited complete() rejects: query rejects with the same value
QueryReject(cause) ==
  /\ op = "query"
  /\ status = "pending"
  /\ slots' = <<Rejected(Rejection(locals.providerName, cause))>>
  /\ error' = Rejection(locals.providerName, cause)
  /\ status' = "rejected"
  /\ UNCHANGED <<config, op, args, locals, invoked, events, result>>
  /\ UNCHANGED registryVars

QueryNext ==
  \/ \E options \in QueryOptions : QueryStart(options)
  \/ \E content \in Contents, label \in Names \cup {"upstream"} : QueryFulfil(content, label)
  \/ \E cause \in Causes : QueryReject(cause)

SpecQuery == Init /\ [][RegistryNext \/ QueryNext]_vars

\* the fan-outs of consensus and debate, while initialize() completes
SpecFanOut == Init /\ [][InitializeStep \/ ConsensusNext \/ DebateNext]_vars

\* ------------------------------------------- the consensus engine alone
\* contents that bring out the grouping: an empty one, and three whose token
\* sets are nested
S_empty == <<>>
S_ab == <<"a", " ", "b">>
S_abc == <<"a", " ", "b", " ", "c">>
S_abcd == <<"a", " ", "b", " ", "c", " ", "d">>
EngineContents == Contents \cup {S_empty, S_ab, S_abc, S_abcd}
\* consensus is called without options.providers
EngineOptions == {[providers |-> None]}

EngineNext ==
  \/ InitializeStep
  \/ \E name \in Addable, providerConfig \in ProviderConfigs : AddProvider(name, providerConfig)
  \/ \E name \in Addable : AddProviderEmit(name)
  \/ \E options \in EngineOptions : ConsensusStart(options)
  \/ \E i \in DOMAIN slots, content \in EngineContents : ConsensusFulfil(i, content)

SpecEngine == Init /\ [][EngineNext]_vars

\* ------------------------------------------- debates by participant name
\* participant lists with an empty name in them, and one without
NamedParticipantLists == {<<"">>, <<"openai", "">>, <<"claude", "openai">>}
NamedDebateOptions ==
  [providers : {Some(l) : l \in NamedParticipantLists},
   maxRounds : {None, Some(1)},
   threshold : {None}]

DebateNamesNext ==
  \/ InitializeStep
  \/ \E name \in Addable, providerConfig \in ProviderConfigs : AddProvider(name, providerConfig)
  \/ \E name \in Addable : AddProviderEmit(name)
  \/ \E options \in NamedDebateOptions : DebateStart(options)
  \/ \E i \in DOMAIN slots, content \in DebateContents : DebateFulfil(i, content)

SpecDebateNames == Init /\ [][DebateNamesNext]_vars

\* ------------------------------------------------- the registry alone
\* the names addProvider is called with, a configured one among them, and the
\* apiKeys it is called with
Reregistered == {"claude", "local"}
ProviderConfigsWide == {"key1", "key2"}

RegistryWideNext ==
  \/ InitializeStep
  \/ \E name \in Reregistered, providerConfig \in ProviderConfigsWide : AddProvider(name, providerConfig)
  \/ \E name \in Reregistered : AddProviderEmit(name)
  \/ \E name \in Removable : RemoveProvider(name)

SpecRegistry == Init /\ [][RegistryWideNext]_vars

Next == RegistryNext \/ QueryNext \/ ConsensusNext \/ DebateNext \/ HealthNext
Spec == Init /\ [][Next]_vars

\* ---------------------------------------------------------------- claims
ConsensusResolved == op = "consensus" /\ status = "resolved"
RECURSIVE MaxLen(_)
MaxLen(groups) ==
  IF Len(groups) = 0 THEN 0
  ELSE LET rest == MaxLen(Tail(groups))
       IN IF Len(Head(groups)) >= rest THEN Len(Head(groups)) ELSE rest
InvokedNames == [k \in 1..Len(invoked) |-> invoked[k].provider]

\* C1: a consensus call that returns collected at least one response, and its
\* agreement is (size of the majority group) / (number of responses collected),
\* a value in [0,1].
C1_AgreementIsMajorityShare ==
  ConsensusResolved =>
    /\ Len(slots) >= 1
    /\ Len(locals.responses) = Len(slots)
    /\ Len(locals.largestGroup) = MaxLen(locals.groups)
    /\ FEq(result.agreement, Frac(MaxLen(locals.groups), Len(slots)))
    /\ result.agreement[2] > 0
    /\ FLeq(Zero, result.agreement)
    /\ FLeq(result.agreement, One)

\* three responses, two of them in the majority group: agreement 2/3
C1_Witness ==
  /\ ConsensusResolved
  /\ Len(locals.responses) = 3
  /\ Len(locals.largestGroup) = 2
  /\ FEq(result.agreement, Frac(2, 3))

\* C2: dissenting is exactly the collected responses outside the majority
\* group, in order, so that |majority| + |dissenting| = |responses|; the field
\* is absent when every response is in the majority group.
C2_DissentingIsComplement ==
  ConsensusResolved =>
    LET outside == SelectSeq([i \in 1..Len(locals.responses) |-> i],
                             LAMBDA i : \A k \in DOMAIN locals.largestGroup : locals.largestGroup[k] # i)
    IN IF Len(outside) = 0
       THEN result.dissenting = None
       ELSE /\ result.dissenting # None
            /\ result.dissenting[1] = [k \in 1..Len(outside) |-> locals.responses[outside[k]]]
            /\ Len(locals.largestGroup) + Len(result.dissenting[1]) = Len(locals.responses)

\* a majority of two and one dissenting response
C2_Witness ==
  /\ ConsensusResolved
  /\ Len(locals.largestGroup) = 2
  /\ result.dissenting # None
  /\ Len(result.dissenting[1]) = 1

\* the fan-out of the consensus call in flight has a provider whose complete()
\* rejected
ProviderRejected(i) ==
  /\ op = "consensus"
  /\ i \in DOMAIN slots
  /\ slots[i].state = "rejected"
  /\ slots[i].error.kind = "raw"

\* C3: when a provider's complete() rejects during a consensus fan-out, the
\* consensus call rejects with a ProviderCallError that names a failing
\* provider and wraps its cause, and returns no result.
C3_RejectsWithProviderCallError ==
  (\E i \in DOMAIN slots : ProviderRejected(i)) =>
    /\ status = "rejected"
    /\ result = NoResult
    /\ error.kind = "ProviderCallError"
    /\ \E i \in DOMAIN slots :
         /\ ProviderRejected(i)
         /\ error.provider = locals.providerNames[i]
         /\ error.cause = slots[i].error.cause

\* C4: a consensus call whose resolved provider set is empty rejects with the
\* no-providers error and invokes complete() on no provider.
C4_EmptyProviderSetRejects ==
  (/\ op = "consensus"
   /\ \/ args.options.providers = Some(<<>>)
      \/ args.options.providers = None /\ locals.providerNames = <<>>) =>
    /\ status = "rejected"
    /\ error = NoProvidersError
    /\ invoked = <<>>
    /\ slots = <<>>
    /\ result = NoResult

\* options.providers is an empty list while the registry holds a provider
C4_Witness ==
  /\ op = "consensus"
  /\ args.options.providers = Some(<<>>)
  /\ Len(registry) > 0
  /\ status = "rejected"
  /\ error = NoProvidersError

\* a step that is the start of a consensus call
ConsensusStartStep ==
  /\ op' = "consensus"
  /\ status # "pending"
  /\ result' = NoResult
  /\ \A i \in DOMAIN slots' : slots'[i].state = "pending" \/ slots'[i].error.kind = "ProviderNotFound"
  /\ UNCHANGED registryVars

\* C10: a consensus call invokes complete() on exactly its resolved provider
\* set (options.providers when given, else the registry's names when it is
\* called), in that order, and the result's providers field is that list.
C10_InvokesResolvedSet ==
  /\ [][ConsensusStartStep =>
          LET resolved == IF args'.options.providers # None
                          THEN args'.options.providers[1] ELSE registry
          IN /\ locals'.providerNames = resolved
             /\ [k \in 1..Len(invoked') |-> invoked'[k].provider]
                  = SelectSeq(resolved, LAMBDA n : n \in SetOf(registry))]_vars
  /\ [](ConsensusResolved =>
          /\ result.providers = locals.providerNames
          /\ InvokedNames = locals.providerNames)

\* a call without options.providers returns after the registry has changed
C10_Witness ==
  /\ ConsensusResolved
  /\ args.options.providers = None
  /\ result.providers = <<"openai", "claude">>
  /\ registry # result.providers

\* a step that is the start of a healthCheck call
HealthCheckStartStep ==
  /\ op' = "healthCheck"
  /\ status # "pending"
  /\ DOMAIN locals'.probed = {}
  /\ UNCHANGED registryVars

\* C9: healthCheck never rejects; it returns one boolean entry for each
\* provider registered when it was called and no other entry; the entry of a
\* provider whose probe threw is false, the entry of a provider without a
\* probe is true, and the entry of a provider that was probed is what its own
\* probe returned, whatever the other probes did.
C9_HealthCheckIsolatesFailures ==
  /\ [][HealthCheckStartStep => locals'.providers = registry]_vars
  /\ [](op = "healthCheck" =>
          /\ status # "rejected"
          /\ status = "resolved" =>
               /\ DOMAIN result = SetOf(locals.providers)
               /\ \A n \in DOMAIN result :
                    /\ result[n] \in BOOLEAN
                    /\ n \in DOMAIN locals.probed =>
                         result[n] = (locals.probed[n] = "true")
                    /\ ~HasProbe(n) => result[n] = TRUE)

\* one probe threw, another returned true, and a provider without a probe
\* was listed
C9_Witness ==
  /\ op = "healthCheck"
  /\ status = "resolved"
  /\ locals.providers = <<"openai", "claude", "local">>
  /\ locals.probed = [n \in {"openai", "claude"} |-> IF n = "openai" THEN "throws" ELSE "true"]
  /\ result = [n \in {"openai", "claude", "local"} |-> n # "openai"]

DebateResolved == op = "debate" /\ status = "resolved"

\* C5: debate never runs more than maxRounds rounds; while it runs, no
\* finished round has reached the threshold; it returns after round k where k
\* is the first round whose agreement is >= threshold, or maxRounds when there
\* is none, and running out of rounds below the threshold is a return, not a
\* rejection.
C5_DebateStopsAtFirstConvergedRound ==
  op = "debate" =>
    /\ locals.round <= locals.maxRounds
    /\ Len(locals.rounds) <= locals.maxRounds
    /\ status = "pending" =>
         \A i \in 1..Len(locals.rounds) : FLess(locals.rounds[i].agreement, locals.threshold)
    /\ status = "resolved" =>
         LET k == Len(result.rounds)
         IN /\ k >= 1
            /\ \A i \in 1..(k - 1) : FLess(result.rounds[i].agreement, locals.threshold)
            /\ FLeq(locals.threshold, result.rounds[k].agreement) \/ k = locals.maxRounds
    /\ (/\ Len(locals.rounds) = locals.maxRounds
        /\ Len(locals.providers) > 0
        /\ FLess(locals.rounds[Len(locals.rounds)].agreement, locals.threshold)) =>
         status = "resolved"

\* two rounds were allowed and run, the second still below the threshold
C5_Witness ==
  /\ DebateResolved
  /\ locals.maxRounds = 2
  /\ Len(result.rounds) = 2
  /\ FLess(result.agreement, locals.threshold)

\* C6: a debate call in flight eventually resolves or rejects, given that
\* every provider call eventually settles.
C6_DebateTerminates ==
  (op = "debate" /\ status = "pending") ~> (op = "debate" /\ status # "pending")

\* a debate that used the default budget of three rounds and returned
C6_Witness ==
  /\ DebateResolved
  /\ args.options.maxRounds = None
  /\ Len(result.rounds) = DefaultMaxRounds

\* C7: the i-th round of a debate, counted from 1, carries round number i,
\* in the rounds collected so far and in the returned result.
C7_RoundNumbersContiguous ==
  op = "debate" =>
    /\ \A i \in 1..Len(locals.rounds) : locals.rounds[i].round = i
    /\ status = "resolved" =>
         /\ result.rounds = locals.rounds
         /\ \A i \in 1..Len(result.rounds) : result.rounds[i].round = i

\* a result with three rounds
C7_Witness ==
  /\ DebateResolved
  /\ Len(result.rounds) = 3
  /\ result.rounds[3].round = 3

\* C8: a debate result's agreement is its last round's agreement, its
\* confidence equals its agreement, and its decision is the content of the
\* last round's first argument, which is the first participant's response.
C8_ResultFromFinalRound ==
  DebateResolved =>
    LET last == result.rounds[Len(result.rounds)]
    IN /\ Len(result.rounds) >= 1
       /\ result.agreement = last.agreement
       /\ result.confidence = result.agreement
       /\ result.decision = last.arguments[1].content
       /\ last.arguments[1].provider = result.participants[1]

\* the first participant changed its answer between the first and last round
C8_Witness ==
  /\ DebateResolved
  /\ Len(result.rounds) >= 2
  /\ result.rounds[1].arguments[1].content # result.decision
  /\ result.decision = result.rounds[Len(result.rounds)].arguments[1].content

\* a step that is the start of a debate call
DebateStartStep ==
  /\ op' = "debate"
  /\ status # "pending"
  /\ Len(events') >= 1
  /\ events'[1] = Event("debate:start", [prompt |-> Question, options |-> args'.options])
  /\ UNCHANGED registryVars

\* C11: a debate called without options.providers takes as participants the
\* names the registry holds when it is called, in list() order.
C11_DefaultParticipantsAreRegistry ==
  [][(DebateStartStep /\ args'.options.providers = None) =>
       locals'.providers = list(registry)]_vars

\* C12: a debate whose resolved participant set is empty rejects with the
\* no-providers error, appends no round and emits neither debate:round nor
\* debate:complete.
C12_EmptyParticipantsReject ==
  (op = "debate" /\ locals.providers = <<>>) =>
    /\ status = "rejected"
    /\ error = NoProvidersError
    /\ locals.rounds = <<>>
    /\ \A k \in DOMAIN events : events[k].name \notin {"debate:round", "debate:complete"}

\* the provider name a query with these arguments must resolve
QueryResolvedName(a) ==
  IF a.options.provider # None THEN a.options.provider[1]
  ELSE IF config.defaultProvider # None THEN config.defaultProvider[1]
  ELSE "openai"

\* a step that is the start of a query call
QueryStartStep ==
  /\ op' = "query"
  /\ status # "pending"
  /\ result' = NoResult
  /\ UNCHANGED registryVars

NoConsensusComplete(evs) == \A k \in DOMAIN evs : evs[k].name # "consensus:complete"

\* C16: a consensus call whose resolved provider set holds a name the registry
\* does not hold rejects with the not-found error for such a name (the first
\* listed), returns no result and emits no consensus:complete.
C16_UnregisteredNameRejects ==
  /\ [][ConsensusStartStep =>
          LET resolved == IF args'.options.providers # None
                          THEN args'.options.providers[1] ELSE list(registry)
              missing == {k \in DOMAIN resolved : ~has(registry, resolved[k])}
          IN missing # {} =>
               /\ status' = "rejected"
               /\ \E k \in missing :
                    /\ error' = ProviderNotFoundError(resolved[k])
                    /\ \A j \in missing : k <= j
               /\ result' = NoResult
               /\ NoConsensusComplete(events')]_vars
  /\ []((op = "consensus" /\ \E i \in DOMAIN slots : slots[i].error.kind = "ProviderNotFound") =>
          /\ status = "rejected"
          /\ error.kind = "ProviderNotFound"
          /\ result = NoResult
          /\ NoConsensusComplete(events))

\* 'claude' is registered and was called, 'local' is not registered
C16_Witness ==
  /\ op = "consensus"
  /\ args.options.providers = Some(<<"claude", "local">>)
  /\ invoked = <<Invocation("claude", Question)>>
  /\ status = "rejected"
  /\ error = ProviderNotFoundError("local")

\* C13: while the last lifecycle event is provider:removed {name} and no
\* addProvider(name) is in flight, the registry does not hold name, whatever
\* else has run since (initialize included); and a removeProvider of a name
\* the registry does not hold leaves the registry as it was.
C13_RemovedStaysUnregistered ==
  /\ [](\A n \in Names :
          (emitted = ProviderRemoved(n) /\ n \notin AddingNames) => ~has(registry, n))
  /\ [][\A n \in Names :
          (emitted' = ProviderRemoved(n) /\ emitted' # emitted /\ ~has(registry, n)) =>
            registry' = registry]_vars

\* no call has been made and initialize() has not resumed since the
\* constructor returned
ConstructorJustReturned ==
  /\ status = "idle"
  /\ adding = {}
  /\ initIdx = (IF Len(config.providers) > 0 THEN 1 ELSE 0)
  /\ emitted = (IF Len(config.providers) = 0 THEN InitializedEvent(config) ELSE NoEvent)

\* C14: when the constructor has just returned, getProviders() lists every
\* configured provider, so that a lookup of any of them succeeds.
C14_AllConfiguredRegisteredAtReturn ==
  ConstructorJustReturned =>
    /\ list(registry) = config.providers
    /\ \A k \in DOMAIN config.providers : has(registry, config.providers[k])

\* C20: the step in which an addProvider(name) call resumes emits
\* provider:added {name} while the registry holds name, the step in which it
\* is called emits nothing, and a step that emits provider:removed {name}
\* leaves a registry that does not hold name.
C20_LifecycleEventsMatchRegistry ==
  [][\A n \in Names :
       /\ (n \in AddingNames /\ n \notin AddingNames') =>
            (emitted' = ProviderAdded(n) /\ has(registry', n))
       /\ (n \notin AddingNames /\ n \in AddingNames') => emitted' = emitted
       /\ (emitted' = ProviderRemoved(n) /\ emitted' # emitted) => ~has(registry', n)]_vars

\* C17: the k-th response a fan-out collects is the k-th listed provider's,
\* with the content that provider's call fulfilled with, whatever the order
\* of arrival: in a consensus result, whose text is that of the earliest
\* listed member of the majority group, and in every debate round, the
\* decision being the first-listed participant's response of the last round.
C17_ResponsesInListedOrder ==
  /\ [](ConsensusResolved =>
          /\ Len(locals.responses) = Len(locals.providerNames)
          /\ \A k \in DOMAIN locals.responses :
               locals.responses[k] = Response(slots[k].content, locals.providerNames[k])
          /\ \A j \in DOMAIN locals.largestGroup : locals.largestGroup[1] <= locals.largestGroup[j]
          /\ result.result = slots[locals.largestGroup[1]].content)
  /\ [](op = "debate" =>
          /\ \A r \in DOMAIN locals.rounds :
               /\ Len(locals.rounds[r].arguments) = Len(locals.providers)
               /\ \A k \in DOMAIN locals.providers :
                    locals.rounds[r].arguments[k].provider = locals.providers[k]
          /\ status = "resolved" =>
               /\ \A k \in DOMAIN slots :
                    result.rounds[Len(result.rounds)].arguments[k].content = slots[k].content
               /\ result.decision = slots[1].content)
  /\ [][(op = "debate" /\ status = "pending" /\ Len(locals'.rounds) = Len(locals.rounds) + 1) =>
          \A k \in DOMAIN slots :
            slots[k].state = "fulfilled" =>
              locals'.rounds[Len(locals'.rounds)].arguments[k].content = slots[k].content]_vars

\* the second-listed provider answered first, with another content than the
\* first-listed, and the consensus text is the first-listed provider's
C17_Witness ==
  /\ ConsensusResolved
  /\ locals.overtaken
  /\ Len(slots) = 2
  /\ slots[1].content = S_up
  /\ slots[2].content = S_um
  /\ locals.responses[1].provider = "openai"
  /\ result.result = S_up

\* C18: a consensus call has emitted consensus:start {prompt, options} first,
\* in the step that invokes the providers; it has emitted consensus:complete
\* once, carrying the returned result, when it has returned, and not at all
\* while it is pending or when it has rejected.
C18_ConsensusEventsBracketCall ==
  op = "consensus" =>
    LET start == Event("consensus:start", [prompt |-> Question, options |-> args.options])
    IN /\ Len(events) >= 1
       /\ events[1] = start
       /\ status = "resolved" => events = <<start, Event("consensus:complete", result)>>
       /\ status # "resolved" => events = <<start>>
       /\ status = "rejected" => result = NoResult

\* two providers were invoked and the call returned
C18_Witness ==
  /\ ConsensusResolved
  /\ Len(invoked) = 2
  /\ Len(events) = 2
  /\ events[2].name = "consensus:complete"
  /\ events[2].payload = result

\* C19: a debate that is running or has returned has emitted debate:start
\* first, then one debate:round {round: r, agreement} for each round r it has
\* appended, in order, carrying that round's agreement, round r's event being
\* emitted before the fan-out of round r+1; when it has returned, it has
\* emitted debate:complete last, once, carrying the returned result.
C19_DebateEventsInOrder ==
  (op = "debate" /\ status \in {"pending", "resolved"}) =>
    /\ Len(events) = 1 + Len(locals.rounds) + (IF status = "resolved" THEN 1 ELSE 0)
    /\ events[1] = Event("debate:start", [prompt |-> Question, options |-> args.options])
    /\ \A r \in DOMAIN locals.rounds :
         events[1 + r] = Event("debate:round",
                               [round |-> r, agreement |-> locals.rounds[r].agreement])
    /\ locals.round <= Len(locals.rounds) + 1
    /\ Len(invoked) <= (Len(locals.rounds) + 1) * Len(locals.providers)
    /\ status = "resolved" =>
         /\ result.rounds = locals.rounds
         /\ events[Len(events)] = Event("debate:complete", result)

\* a debate of three rounds returned: five events
C19_Witness ==
  /\ DebateResolved
  /\ Len(result.rounds) = 3
  /\ Len(events) = 5
  /\ events[4] = Event("debate:round", [round |-> 3, agreement |-> result.agreement])
  /\ events[5].name = "debate:complete"

\* the place of a name in a list of names
Pos(reg, n) == CHOOSE i \in DOMAIN reg : reg[i] = n

\* C21: the registry never lists a name twice and stores one instance under
\* each listed name; a register of a name already listed leaves the list as it
\* is and stores the new instance, a register of a new name puts it last, no
\* other name's instance changes, and the names that stay listed keep their
\* relative order in every step.
C21_RegisterReplacesInPlace ==
  /\ [](/\ \A i, j \in DOMAIN registry : i # j => registry[i] # registry[j]
        /\ DOMAIN instances = SetOf(registry))
  /\ [][/\ \A a \in adding' \ adding :
             /\ instances'[a.name] = a.config
             /\ IF has(registry, a.name)
                THEN list(registry') = list(registry)
                ELSE list(registry') = Append(list(registry), a.name)
             /\ \A n \in DOMAIN instances \ {a.name} : instances'[n] = instances[n]
        /\ \A n, m \in SetOf(registry') :
             (n \in SetOf(registry) /\ m \in SetOf(registry) /\ Pos(registry, n) < Pos(registry, m)) =>
               Pos(registry', n) < Pos(registry', m)
        /\ \A n \in SetOf(registry) \cap SetOf(registry'), m \in SetOf(registry') \ SetOf(registry) :
             Pos(registry', n) < Pos(registry', m)]_vars

\* 'local' was added before 'claude' was registered and, still listed, has
\* been registered again with another apiKey: it keeps its place
C21_Witness ==
  /\ list(registry) = <<"openai", "local", "claude">>
  /\ emitted = ProviderAdded("local")
  /\ adding = {[name |-> "local", config |-> "key2"]}
  /\ instances["local"] = "key2"

\* a step of an addProvider call (to its await, or from it) or of a
\* removeProvider call
LifecycleStep ==
  \/ adding' # adding
  \/ Len(registry') < Len(registry)
  \/ (emitted' # emitted /\ emitted'.name = "provider:removed")

\* C22: a step of addProvider or removeProvider leaves the configuration the
\* facade holds (providers, defaultProvider, consensusThreshold,
\* maxDebateRounds, timeout) as it was.
C22_LifecycleKeepsConfig ==
  [][LifecycleStep => config' = config]_vars

\* a configured provider has been removed and another added: the
\* configuration still names the configured providers
C22_Witness ==
  /\ emitted = ProviderRemoved("claude")
  /\ initialized
  /\ list(registry) = <<"openai", "local">>
  /\ config.providers = <<"openai", "claude">>

\* C23: the threshold a debate uses is options.threshold when supplied, else
\* config.consensusThreshold when set, else 0.7, and the round budget is
\* options.maxRounds when supplied, else config.maxDebateRounds when set,
\* else 3.
C23_SuppliedValuesAreUsed ==
  op = "debate" =>
    /\ locals.threshold =
         (IF args.options.threshold # None THEN args.options.threshold[1]
          ELSE IF config.consensusThreshold # None THEN config.consensusThreshold[1]
          ELSE Frac(7, 10))
    /\ locals.maxRounds =
         (IF args.options.maxRounds # None THEN args.options.maxRounds[1]
          ELSE IF config.maxDebateRounds # None THEN config.maxDebateRounds[1]
          ELSE 3)

\* the token set of the k-th collected response and the similarity of two
\* collected responses
TokensOf(k) == SetOf(split(toLowerCase(locals.responses[k].content)))
SimilarityOf(i, j) == Jaccard(TokensOf(i), TokensOf(j))
\* the groups that hold the k-th collected response
GroupsOf(k) == {g \in DOMAIN locals.groups : k \in SetOf(locals.groups[g])}

\* C24: when every provider returned the same content (one provider
\* included), the consensus has agreement 1, confidence 1, that content as
\* its result and no dissenting field.
C24_UnanimousSameContent ==
  (ConsensusResolved /\ \A i, j \in DOMAIN slots : slots[i].content = slots[j].content) =>
    /\ FEq(result.agreement, One)
    /\ FEq(result.confidence, One)
    /\ result.result = slots[1].content
    /\ result.dissenting = None

\* three providers returned "a b c"
C24_Witness ==
  /\ ConsensusResolved
  /\ Len(slots) = 3
  /\ \A i \in DOMAIN slots : slots[i].content = S_abc
  /\ result.result = S_abc
  /\ result.dissenting = None

\* C25: confidence is the agreement when the majority group is not all the
\* responses, and min(1, 1.2 x agreement) when it is; it lies in [0,1].
C25_ConfidenceFromAgreement ==
  ConsensusResolved =>
    /\ IF Len(locals.largestGroup) = Len(locals.responses)
       THEN FEq(result.confidence, FMin(One, FMul(Frac(12, 10), result.agreement)))
       ELSE FEq(result.confidence, result.agreement)
    /\ result.confidence[2] > 0
    /\ FLeq(Zero, result.confidence)
    /\ FLeq(result.confidence, One)

\* two responses that differ as text form a unanimous group: the boosted
\* value 1.2 is capped to 1
C25_Witness ==
  /\ ConsensusResolved
  /\ Len(locals.responses) = 2
  /\ locals.responses[1].content # locals.responses[2].content
  /\ Len(locals.largestGroup) = 2
  /\ FLess(One, FMul(Frac(12, 10), result.agreement))
  /\ FEq(result.confidence, One)

\* C26: the result text is the content of the earliest collected response of
\* the majority group, a group no other group is larger than.
C26_ResultIsFirstOfMajority ==
  ConsensusResolved =>
    /\ \E g \in DOMAIN locals.groups : locals.groups[g] = locals.largestGroup
    /\ \A g \in DOMAIN locals.groups : Len(locals.groups[g]) <= Len(locals.largestGroup)
    /\ \E k \in SetOf(locals.largestGroup) :
         /\ \A m \in SetOf(locals.largestGroup) : k <= m
         /\ result.result = locals.responses[k].content

\* the majority group is the second and third response, which differ as
\* text: the result is the second one's
C26_Witness ==
  /\ ConsensusResolved
  /\ locals.largestGroup = <<2, 3>>
  /\ locals.responses[2].content = S_UP
  /\ locals.responses[3].content = S_up
  /\ result.result = S_UP

\* C27: two collected responses whose lower-cased token sets are equal have
\* similarity 1 and are in the same group, wherever they stand and whatever
\* the other responses are.
C27_EqualTokenSetsShareGroup ==
  ConsensusResolved =>
    \A i, j \in DOMAIN locals.responses :
      TokensOf(i) = TokensOf(j) =>
        /\ FEq(SimilarityOf(i, j), One)
        /\ GroupsOf(i) = GroupsOf(j)
        /\ GroupsOf(i) # {}

\* the first and third response have the same tokens in another case and
\* spacing, the second one between them is unlike both
C27_Witness ==
  /\ ConsensusResolved
  /\ Len(locals.responses) = 3
  /\ locals.responses[1].content = S_UP
  /\ locals.responses[2].content = S_abcd
  /\ locals.responses[3].content = S_up
  /\ locals.groups = <<(<<1, 3>>), (<<2>>)>>

\* C28: two collected responses that both have empty content have similarity
\* 0 and are in different groups.
C28_EmptyContentsApart ==
  ConsensusResolved =>
    \A i, j \in DOMAIN locals.responses :
      (i # j /\ locals.responses[i].content = <<>> /\ locals.responses[j].content = <<>>) =>
        /\ FEq(SimilarityOf(i, j), Zero)
        /\ GroupsOf(i) \cap GroupsOf(j) = {}

RECURSIVE SumLen(_)
SumLen(groups) == IF Len(groups) = 0 THEN 0 ELSE Len(Head(groups)) + SumLen(Tail(groups))

\* C29: the groups partition the collected responses: every response is in
\* exactly one group, once; no group is empty; the sizes add up to the number
\* of responses.
C29_GroupsPartitionResponses ==
  ConsensusResolved =>
    /\ \A k \in DOMAIN locals.responses : Cardinality(GroupsOf(k)) = 1
    /\ \A g \in DOMAIN locals.groups :
         /\ Len(locals.groups[g]) >= 1
         /\ \A a, b \in DOMAIN locals.groups[g] :
              a # b => locals.groups[g][a] # locals.groups[g][b]
         /\ SetOf(locals.groups[g]) \subseteq DOMAIN locals.responses
    /\ SumLen(locals.groups) = Len(locals.responses)

\* the first response alone, the second and third together
C29_Witness ==
  /\ ConsensusResolved
  /\ Len(locals.responses) = 3
  /\ locals.groups = <<(<<1>>), (<<2, 3>>)>>

\* C30: in every group each member after the first stands later than the
\* first (the seed) and has similarity above 0.6 to it, and the seed of a
\* group has similarity at most 0.6 to the seed of every earlier group.
C30_GroupsAreSeedBased ==
  ConsensusResolved =>
    /\ \A g \in DOMAIN locals.groups :
         \A m \in 2..Len(locals.groups[g]) :
           /\ locals.groups[g][1] < locals.groups[g][m]
           /\ FLess(Frac(6, 10), SimilarityOf(locals.groups[g][1], locals.groups[g][m]))
    /\ \A g, h \in DOMAIN locals.groups :
         g < h => /\ locals.groups[g][1] < locals.groups[h][1]
                  /\ FLeq(SimilarityOf(locals.groups[g][1], locals.groups[h][1]), Frac(6, 10))

\* one group of three whose two later members are not similar to each other
C30_Witness ==
  /\ ConsensusResolved
  /\ Len(locals.responses) = 3
  /\ locals.groups = <<(<<1, 2, 3>>)>>
  /\ locals.responses[1].content = S_abc
  /\ FLeq(SimilarityOf(2, 3), Frac(6, 10))

\* C31: the majority group is one of the groups, no group is larger, and
\* among the groups of that size it is the one whose seed stands earliest in
\* provider order; the result is the content of its seed.
C31_MajorityIsFirstLargest ==
  ConsensusResolved =>
    /\ \E g \in DOMAIN locals.groups : locals.groups[g] = locals.largestGroup
    /\ \A g \in DOMAIN locals.groups :
         /\ Len(locals.groups[g]) <= Len(locals.largestGroup)
         /\ Len(locals.groups[g]) = Len(locals.largestGroup) =>
              locals.largestGroup[1] <= locals.groups[g][1]
    /\ result.result = locals.responses[locals.largestGroup[1]].content
    /\ FEq(result.agreement, Frac(Len(locals.largestGroup), Len(locals.responses)))

\* three responses no two of which are similar: three groups of one, the
\* first is the majority
C31_Witness ==
  /\ ConsensusResolved
  /\ locals.groups = <<(<<1>>), (<<2>>), (<<3>>)>>
  /\ locals.largestGroup = <<1>>
  /\ result.result = locals.responses[1].content

FanOutCall == op \in {"consensus", "debate"}

\* C32: a consensus call or a debate has neither resolved nor rejected while
\* a provider call it dispatched is still pending.
C32_SettlesAfterAllCalls ==
  (FanOutCall /\ status \in {"resolved", "rejected"}) =>
    \A i \in DOMAIN slots : slots[i].state # "pending"

\* the names a debate's participants resolve to in query
ParticipantNames(providers) ==
  [k \in 1..Len(providers) |-> resolveQueryProvider(Some(providers[k]), config)]
\* the entries of a list of names the registry holds
Held(names) == SelectSeq(names, LAMBDA n : n \in SetOf(registry))
NamesOf(inv) == [k \in 1..Len(inv) |-> inv[k].provider]

PendingSlots == {i \in DOMAIN slots : slots[i].state = "pending"}

\* C34: the rounds of a debate follow one another.  The calls of round N are
\* started in the step in which the last pending call of round N-1 fulfils,
\* after every other call of round N-1 has fulfilled and round N-1 has been
\* appended to rounds; while a call is pending, every round before the
\* current one has been appended and the current one has not.
C34_RoundsSequential ==
  /\ [][(op = "debate" /\ op' = "debate" /\ status = "pending"
           /\ Len(locals.providers) > 0 /\ locals'.round # locals.round) =>
          /\ locals'.round = locals.round + 1
          /\ Cardinality(PendingSlots) = 1
          /\ \A i \in DOMAIN slots : slots[i].state \in {"pending", "fulfilled"}
          /\ Len(locals'.rounds) = locals.round
          /\ locals'.rounds[locals.round].round = locals.round
          /\ Len(locals'.rounds[locals.round].arguments) = Len(slots)
          /\ Len(invoked') = Len(invoked) + Cardinality({i \in DOMAIN slots' : slots'[i].state = "pending"})]_vars
  /\ []((op = "debate" /\ Len(locals.providers) > 0) =>
          /\ Len(locals.rounds) \in {locals.round - 1, locals.round}
          /\ PendingSlots # {} => Len(locals.rounds) = locals.round - 1
          /\ \A r \in DOMAIN locals.rounds : locals.rounds[r].round = r)

\* the second round of a debate between two participants is under way: the
\* first round is appended, four calls were made, two of them are pending
C34_Witness ==
  /\ op = "debate"
  /\ status = "pending"
  /\ locals.round = 2
  /\ Len(locals.rounds) = 1
  /\ Len(locals.providers) = 2
  /\ Len(invoked) = 4
  /\ Cardinality(PendingSlots) = 2

\* the digest buildDebatePrompt makes of a round's arguments
DigestOf(round) ==
  [k \in 1..Len(round.arguments) |->
     [provider |-> round.arguments[k].provider,
      preview |-> substring(round.arguments[k].content, PreviewLen)]]

\* C35: the calls of round 1 receive the caller's prompt; the calls of a
\* round N >= 2 all receive the caller's prompt with the digest of round N-1
\* alone, no digest of an earlier round; and a debate that returned left the
\* prompt as its last round received it.
C35_PromptCarriesLastRoundOnly ==
  (op = "debate" /\ Len(locals.providers) > 0 /\ locals.round >= 1
     /\ ((status = "pending" /\ PendingSlots # {}) \/ status = "resolved")) =>
    /\ locals.prompt =
         IF locals.round = 1 THEN Question
         ELSE [text |-> Question.text,
               context |-> <<DigestOf(locals.rounds[locals.round - 1])>>]
    /\ \A k \in DOMAIN invoked :
         k > Len(invoked) - Len(locals.providers) => invoked[k].prompt = locals.prompt

\* C36: a debate rejected by a provider call of round r has appended the
\* rounds 1..r-1 and no other, has emitted debate:start and the debate:round
\* events of rounds 1..r-1 and nothing else (no debate:round for r, no
\* debate:complete), has started no call after those of round r, and has no
\* result.
C36_RejectedRoundLeavesNoTrace ==
  (op = "debate" /\ status = "rejected" /\ error.kind = "raw") =>
    /\ locals.round >= 1
    /\ Len(locals.rounds) = locals.round - 1
    /\ \A r \in DOMAIN locals.rounds : locals.rounds[r].round = r
    /\ Len(events) = locals.round
    /\ events[1].name = "debate:start"
    /\ \A r \in 1..(locals.round - 1) :
         events[1 + r] = Event("debate:round",
                               [round |-> r, agreement |-> locals.rounds[r].agreement])
    /\ Len(invoked) = locals.round * Len(locals.providers)
    /\ \E i \in DOMAIN slots : slots[i].state = "rejected" /\ slots[i].error = error
    /\ result = NoResult

\* the second round of a debate rejected: one round appended, two events
C36_Witness ==
  /\ op = "debate"
  /\ status = "rejected"
  /\ error.kind = "raw"
  /\ locals.round = 2
  /\ Len(locals.rounds) = 1
  /\ Len(events) = 2
  /\ events[2].name = "debate:round"

C38_SingleParticipantOneRound ==
  op = "debate" =>
    /\ \A r \in DOMAIN locals.rounds :
         /\ locals.rounds[r].agreement[2] > 0
         /\ FLeq(Zero, locals.rounds[r].agreement)
         /\ FLeq(locals.rounds[r].agreement, One)
    /\ Len(locals.providers) = 1 =>
         /\ FLeq(locals.threshold, One)
         /\ locals.round <= 1
         /\ Len(invoked) <= 1
         /\ status = "resolved" =>
              /\ Len(result.rounds) = 1
              /\ FEq(result.rounds[1].agreement, One)
              /\ FEq(result.agreement, One)
              /\ Len(invoked) = 1

\* a debate with the one participant 'openai', three rounds allowed and
\* threshold 1, returned after its first round
C38_Witness ==
  /\ DebateResolved
  /\ result.participants = <<"openai">>
  /\ locals.maxRounds = 3
  /\ FEq(locals.threshold, One)
  /\ Len(result.rounds) = 1
  /\ FEq(result.agreement, One)

\* the orders a list of n elements can be put in
Orders(n) == {f \in [1..n -> 1..n] : \A a, b \in 1..n : a # b => f[a] # f[b]}

\* C39: the agreement a consensus call returns is the agreement of the same
\* responses collected in any other provider order.
C39_AgreementIgnoresOrder ==
  ConsensusResolved =>
    \A f \in Orders(Len(locals.responses)) :
      FEq(calculateConsensus([k \in 1..Len(locals.responses) |-> locals.responses[f[k]]]).agreement,
          result.agreement)

HealthResolved == op = "healthCheck" /\ status = "resolved"

\* C40: every entry a returned healthCheck reports as true is the entry of a
\* provider whose probe ran and returned true, or of a provider that exposes
\* no probe, whatever removeProvider and addProvider calls ran meanwhile.
C40_TrueEntriesWereProbed ==
  HealthResolved =>
    \A n \in DOMAIN result :
      result[n] =>
        \/ n \in DOMAIN locals.probed /\ locals.probed[n] = "true"
        \/ ~HasProbe(n)
====
